---- MODULE Spec2Model ----
(***************************************************************************)
(* State-machine model of streamlit_app.py: one Streamlit session that     *)
(* runs the script top to bottom once per interaction.  A run rebuilds the *)
(* index arrays (lines 20-22), draws the preview (63-72), plays the live   *)
(* animation when run_anim is set (75-89) and exports the GIF when         *)
(* export_gif is set (103-122).                                            *)
(*                                                                         *)
(* Numbers.  A time value is written exactly as                            *)
(*     t = steps * 0.005 + (turn[1] / turn[2]) * 2*pi                      *)
(* (the preview slider moves in steps of 0.005, np.linspace in fractions   *)
(* of 2*pi), so equal records are equal times.  Array entries that the     *)
(* script computes with sin, cos and sqrt are kept as terms                *)
(* <<name, t, x[j], y[j]>>: the model records what each entry was computed *)
(* from, not its floating-point value.                                     *)
(*                                                                         *)
(* The widgets are the configuration surface: the model draws frames, fps  *)
(* and the preview position from small sets that also hold the values the  *)
(* sliders would not offer (frames < 2, fps <= 0), because lines 75-122    *)
(* run on whatever integers they are handed.  point_size, bg_color and     *)
(* dot_color are passed to matplotlib unchanged and are left out.          *)
(***************************************************************************)
EXTENDS Integers, Sequences, FiniteSets, TLC

\* ---------------------------------------------------------------- bounds
\* Largest index of the domain: the source builds arange(9999, -1, -1).
MaxIndex == 1
\* Largest frame count and playback rate the configuration offers.
MaxFrames == 3
MaxFps == 1
\* Preview slider positions 0..MaxPreviewStep (each 0.005 wide).
MaxPreviewStep == 0
\* A new script run starts only while fewer figures than this are open.
MaxOpenFigs == 3

\* ------------------------------------------------------------- constants
\* y = i / 235.0
YDivisor == 235
\* time.sleep(max(1e-3, 1.0 / fps)): 1e-3 s is 1/1000 s.
MinDelayDen == 1000

FramesCfg == {-1, 0, 1} \cup (2..MaxFrames)
FpsCfg == {-1, 0} \cup (1..MaxFps)
PreviewCfg == 0..MaxPreviewStep

None == [none |-> TRUE]

VARIABLES
    pc,          \* position of the script run
    error,       \* the exception that ended the run, "" when none
    t_preview, frames, fps, run_anim, export_gif,   \* widget values
    i, x, y,     \* the index arrays, [id, data]
    nextId,      \* ids handed out to arrays so far in this run
    X, Y,        \* module globals assigned at lines 63 and 79
    ts, idx,     \* the sampled times, and the loop position in them
    figs,        \* pyplot's registry of open figure numbers (process-wide)
    fig_prev, fig,   \* figure numbers held by the script
    displayed,   \* what the placeholder was asked to show, in order
    pauses,      \* the delays time.sleep was called with, in order
    scat,        \* the export scatter's offsets
    encoded,     \* frames held by the writer
    buf,         \* the BytesIO: None until the writer finished
    download, success,   \* st.download_button / st.success
    calls,       \* every frame compute_points returned in this run
    sampled,     \* every linspace result of this run, with its path
    probe,       \* one earlier frame or sample, kept across runs
    run          \* script runs started in this session

vars == <<pc, error, t_preview, frames, fps, run_anim, export_gif, i, x, y,
          nextId, X, Y, ts, idx, figs, fig_prev, fig, displayed, pauses,
          scat, encoded, buf, download, success, calls, sampled,
          probe, run>>

\* ------------------------------------------------------------ arithmetic
Abs(n) == IF n < 0 THEN -n ELSE n

RECURSIVE GCD(_, _)
GCD(a, b) == IF b = 0 THEN a ELSE GCD(b, a % b)

\* The fraction n/d (d # 0) in lowest terms with a positive denominator.
Rat(n, d) ==
    LET g == GCD(Abs(n), Abs(d))
        s == IF d < 0 THEN -1 ELSE 1
    IN  <<(s * n) \div g, (s * d) \div g>>

RatLess(p, q) == p[1] * q[2] < q[1] * p[2]
RatMax(p, q) == IF RatLess(p, q) THEN q ELSE p

SetMax(S) == CHOOSE m \in S : \A n \in S : n <= m

Range(s) == {s[k] : k \in 1..Len(s)}

\* A time value: steps of 0.005 plus a fraction of 2*pi.
Time(steps, turn) == [steps |-> steps, turn |-> turn]

TimeLess(a, b) ==
    /\ a.steps = b.steps
    /\ RatLess(a.turn, b.turn)


\* ----------------------------------------------------------------- numpy
\* np.arange(hi, -1, -1): hi, hi-1, ..., 0.
arange(hi) == [j \in 1..(hi + 1) |-> hi + 1 - j]

\* np.linspace(0.0, 2*pi, num, endpoint=False): step 2*pi/num, last value 2*pi*(num-1)/num.
linspace_open(num) ==
    IF num <= 0 THEN << >>
    ELSE [k \in 1..num |-> Time(0, Rat(k - 1, num))]

\* np.linspace(0.0, 2.0 * np.pi, num, endpoint=True), for num >= 0, in units
\* of 2*pi: div = num - 1; arange(0, num) * (1/div) when div > 0, else
\* arange(0, num) * 1; and the last entry set to the stop value when num > 1.
linspace(num) ==
    LET div == num - 1
        raw == [k \in 1..num |->
                   IF div > 0 THEN Rat(k - 1, div) ELSE Rat(k - 1, 1)]
        fin == [k \in 1..num |->
                   IF num > 1 /\ k = num THEN Rat(1, 1) ELSE raw[k]]
    IN  IF num <= 0 THEN << >> ELSE [k \in 1..num |-> Time(0, fin[k])]

\* np.linspace raises ValueError for a negative number of samples.
linspace_raises(num) == num < 0

\* ------------------------------------------------------- compute_points
\* compute_points with its first division done in place (x /= 11.0); the
\* quotients are kept to whole numbers.
compute_points_inplace(tt) ==
    LET n == Len(x.data)
        xs == [x EXCEPT !.data = [j \in 1..n |-> x.data[j] \div 11]]
    IN  [X |-> [id |-> nextId + 6,
                data |-> [j \in 1..n |-> <<"xp", tt, xs.data[j], y.data[j]>>]],
         Y |-> [id |-> nextId + 8,
                data |-> [j \in 1..n |-> <<"400-yp", tt, xs.data[j], y.data[j]>>]],
         x |-> xs, y |-> y, nextId |-> nextId + 8]

\* compute_points adding its result to the frame left in the globals X, Y.
compute_points_accum(tt) ==
    LET n == Len(x.data)
    IN  [X |-> [id |-> nextId + 6,
                data |-> [j \in 1..n |-> <<"xp", tt, x.data[j], y.data[j], X>>]],
         Y |-> [id |-> nextId + 8,
                data |-> [j \in 1..n |-> <<"400-yp", tt, x.data[j], y.data[j], Y>>]],
         x |-> x, y |-> y, nextId |-> nextId + 8]

\* compute_points(t): reads the globals x and y and the argument, writes
\* nothing, and builds the arrays k, e, d, q, c, xp, yp and 400.0 - yp, each
\* a new array.  X is xp; Y is the last one.  The record gives the returned
\* pair, and x, y and the allocation count as the call leaves them.
compute_points(tt) ==
    LET n == Len(x.data)
    IN  [X |-> [id |-> nextId + 6,
                data |-> [j \in 1..n |-> <<"xp", tt, x.data[j], y.data[j]>>]],
         Y |-> [id |-> nextId + 8,
                data |-> [j \in 1..n |-> <<"400-yp", tt, x.data[j], y.data[j]>>]],
         x |-> x, y |-> y, nextId |-> nextId + 8]

\* The frame a call returned, as the logs keep it.
Frame(tt, r) == [kind |-> "frame", t |-> tt, X |-> r.X, Y |-> r.Y, run |-> run]

\* The points a scatter of (X, Y) draws: np.column_stack([X, Y]).
column_stack(ax, ay) == [j \in 1..Len(ax.data) |-> <<ax.data[j], ay.data[j]>>]

\* ---------------------------------------------------------------- pyplot
\* plt.subplots(): a new figure, numbered one past the largest open one,
\* entered in pyplot's registry.  Nothing in the script closes a figure.
plt_subplots == IF figs = {} THEN 1 ELSE SetMax(figs) + 1

\* ----------------------------------------------------------------- sleep
\* The delay without the 1 ms floor.
SleepDelay_nofloor(f) == Rat(1, f)

\* max(1e-3, 1.0 / fps) in seconds, for fps # 0.
SleepDelay(f) == RatMax(Rat(1, MinDelayDen), Rat(1, f))

\* ---------------------------------------------------------------- export
\* update reading the sequence from its far end.
update_reversed(frame_idx) ==
    LET tt == ts[Len(ts) - frame_idx]
    IN  [t |-> tt, r |-> compute_points(tt)]

\* build_animation.update(frame_idx): t = ts[frame_idx] (0-based), then
\* compute_points(t).
update(frame_idx) ==
    LET tt == ts[frame_idx + 1]
    IN  [t |-> tt, r |-> compute_points(tt)]

\* An encoder error swallowed: the script goes on to the download button.
OnEncoderError_swallow == "export_download"

\* Lines 116-118 sit in no try block: an exception out of ani.save ends the
\* script run.
OnEncoderError == "crashed"

\* The probe: keep the one held, or take this one when none is held.
Capture(old, new) == IF old = None THEN {None, new} ELSE {old}


\* ------------------------------------------------------------------ Init
\* The session before its first script run: nothing built, no figure open.
\* The widget variables hold placeholders until StartRun draws them.
Init ==
    /\ pc = "idle"
    /\ error = ""
    /\ t_preview = 0 /\ frames = 2 /\ fps = 1
    /\ run_anim = FALSE /\ export_gif = FALSE
    /\ i = None /\ x = None /\ y = None
    /\ nextId = 0
    /\ X = None /\ Y = None
    /\ ts = << >> /\ idx = 0
    /\ figs = {}
    /\ fig_prev = 0 /\ fig = 0
    /\ displayed = << >> /\ pauses = << >>
    /\ scat = None /\ encoded = << >> /\ buf = None
    /\ download = None /\ success = FALSE
    /\ calls = << >> /\ sampled = {}
    /\ probe = None
    /\ run = 0

\* What a run that ends by an exception leaves as it is.
Crash(exc) ==
    /\ pc' = "crashed"
    /\ error' = exc

\* Where the script goes after the live block.
AfterLive == IF export_gif THEN "export_sample" ELSE "done"

\* --------------------------------------------------------------- actions
\* An interaction starts a script run: the widgets return their values
\* (lines 50-60) and the run's own names are unbound again.  pyplot's
\* registry belongs to the process and is kept.
StartRun ==
    /\ pc \in {"idle", "done", "crashed"}
    /\ Cardinality(figs) < MaxOpenFigs
    /\ t_preview' \in PreviewCfg
    /\ frames' \in FramesCfg
    /\ fps' \in FpsCfg
    /\ run_anim' \in BOOLEAN
    /\ export_gif' \in BOOLEAN
    /\ pc' = "init"
    /\ error' = ""
    /\ i' = None /\ x' = None /\ y' = None
    /\ nextId' = 0
    /\ X' = None /\ Y' = None
    /\ ts' = << >> /\ idx' = 0
    /\ fig_prev' = 0 /\ fig' = 0
    /\ displayed' = << >> /\ pauses' = << >>
    /\ scat' = None /\ encoded' = << >> /\ buf' = None
    /\ download' = None /\ success' = FALSE
    /\ calls' = << >> /\ sampled' = {}
    /\ run' = run + 1
    /\ UNCHANGED <<figs, probe>>

\* Lines 20-22: i = np.arange(9999, -1, -1); x = i.copy(); y = i / 235.0.
ModuleInit ==
    /\ pc = "init"
    /\ i' = [id |-> nextId + 1, data |-> arange(MaxIndex)]
    /\ x' = [id |-> nextId + 2, data |-> i'.data]
    /\ y' = [id |-> nextId + 3,
             data |-> [j \in 1..Len(i'.data) |-> Rat(i'.data[j], YDivisor)]]
    /\ nextId' = nextId + 3
    /\ pc' = "preview"
    /\ UNCHANGED <<run, error, t_preview, frames, fps, run_anim, export_gif, X, Y,
                   ts, idx, figs, fig_prev, fig, displayed, pauses, scat,
                   encoded, buf, download, success, calls, sampled, probe>>

\* Lines 63-72: X, Y = compute_points(t_preview); a new figure; st.pyplot.
Preview ==
    /\ pc = "preview"
    /\ LET tt == Time(t_preview, Rat(0, 1))
           r == compute_points(tt)
       IN  /\ X' = r.X /\ Y' = r.Y
           /\ x' = r.x /\ y' = r.y /\ nextId' = r.nextId
           /\ calls' = Append(calls, Frame(tt, r))
           /\ probe' \in Capture(probe, Frame(tt, r))
    /\ fig_prev' = plt_subplots
    /\ figs' = figs \cup {plt_subplots}
    /\ pc' = IF run_anim THEN "live_sample" ELSE AfterLive
    /\ UNCHANGED <<run, error, t_preview, frames, fps, run_anim, export_gif, i,
                   ts, idx, fig, displayed, pauses, scat, encoded, buf,
                   download, success, sampled>>

\* Lines 76-77: placeholder = st.empty(); ts = np.linspace(...).
LiveSample ==
    /\ pc = "live_sample"
    /\ \/ /\ linspace_raises(frames)
          /\ Crash("ValueError")
          /\ UNCHANGED <<ts, sampled, probe>>
       \/ /\ ~linspace_raises(frames)
          /\ ts' = linspace(frames)
          /\ sampled' = sampled \cup {[path |-> "live", n |-> frames, ts |-> linspace(frames)]}
          /\ probe' \in Capture(probe, [kind |-> "sample", n |-> frames, ts |-> linspace(frames), run |-> run])
          /\ pc' = "live_loop"
          /\ UNCHANGED error
    /\ idx' = 0
    /\ UNCHANGED <<run, t_preview, frames, fps, run_anim, export_gif, i, x, y,
                   nextId, X, Y, figs, fig_prev, fig, displayed, pauses,
                   scat, encoded, buf, download, success, calls>>

\* Lines 78-79: the next t of ts; X, Y = compute_points(t).
LiveCompute ==
    /\ pc = "live_loop"
    /\ idx < Len(ts)
    /\ LET tt == ts[idx + 1]
           r == compute_points(tt)
       IN  /\ X' = r.X /\ Y' = r.Y
           /\ x' = r.x /\ y' = r.y /\ nextId' = r.nextId
           /\ calls' = Append(calls, Frame(tt, r))
           /\ probe' \in Capture(probe, Frame(tt, r))
    /\ pc' = "live_render"
    /\ UNCHANGED <<run, error, t_preview, frames, fps, run_anim, export_gif, i,
                   ts, idx, figs, fig_prev, fig, displayed, pauses, scat,
                   encoded, buf, download, success, sampled>>

\* Lines 80-87: a new figure with the scatter of X, Y.
LiveRender ==
    /\ pc = "live_render"
    /\ fig' = plt_subplots
    /\ figs' = figs \cup {plt_subplots}
    /\ pc' = "live_display"
    /\ UNCHANGED <<run, error, t_preview, frames, fps, run_anim, export_gif, i, x,
                   y, nextId, X, Y, ts, idx, fig_prev, displayed, pauses,
                   scat, encoded, buf, download, success, calls, sampled, probe>>

\* Line 88: placeholder.pyplot(fig).
LiveDisplay ==
    /\ pc = "live_display"
    /\ displayed' = Append(displayed,
                           [t |-> ts[idx + 1], fig |-> fig, pts |-> column_stack(X, Y)])
    /\ pc' = "live_sleep"
    /\ UNCHANGED <<run, error, t_preview, frames, fps, run_anim, export_gif, i, x,
                   y, nextId, X, Y, ts, idx, figs, fig_prev, fig, pauses,
                   scat, encoded, buf, download, success, calls, sampled, probe>>

\* Line 89: time.sleep(max(1e-3, 1.0 / fps)); 1.0 / 0 raises.
LiveSleep ==
    /\ pc = "live_sleep"
    /\ \/ /\ fps = 0
          /\ Crash("ZeroDivisionError")
          /\ UNCHANGED <<pauses, idx>>
       \/ /\ fps # 0
          /\ pauses' = Append(pauses, SleepDelay(fps))
          /\ idx' = idx + 1
          /\ pc' = "live_loop"
          /\ UNCHANGED error
    /\ UNCHANGED <<run, t_preview, frames, fps, run_anim, export_gif, i, x, y,
                   nextId, X, Y, ts, figs, fig_prev, fig, displayed, scat,
                   encoded, buf, download, success, calls, sampled, probe>>

\* Line 78, ts exhausted: the loop ends.
LiveExit ==
    /\ pc = "live_loop"
    /\ idx = Len(ts)
    /\ pc' = AfterLive
    /\ UNCHANGED <<run, error, t_preview, frames, fps, run_anim, export_gif, i, x,
                   y, nextId, X, Y, ts, idx, figs, fig_prev, fig, displayed,
                   pauses, scat, encoded, buf, download, success, calls,
                   sampled, probe>>


\* Line 104: ts = np.linspace(0.0, 2.0 * np.pi, frames, endpoint=True).
ExportSample ==
    /\ pc = "export_sample"
    /\ \/ /\ linspace_raises(frames)
          /\ Crash("ValueError")
          /\ UNCHANGED <<ts, sampled, probe>>
       \/ /\ ~linspace_raises(frames)
          /\ ts' = linspace(frames)
          /\ sampled' = sampled \cup {[path |-> "export", n |-> frames, ts |-> linspace(frames)]}
          /\ probe' \in Capture(probe, [kind |-> "sample", n |-> frames, ts |-> linspace(frames), run |-> run])
          /\ pc' = "export_figure"
          /\ UNCHANGED error
    /\ UNCHANGED <<run, t_preview, frames, fps, run_anim, export_gif, i, x, y,
                   nextId, X, Y, idx, figs, fig_prev, fig, displayed, pauses,
                   scat, encoded, buf, download, success, calls>>

\* Lines 105-114: a new figure with an empty scatter; ani = build_animation.
ExportFigure ==
    /\ pc = "export_figure"
    /\ fig' = plt_subplots
    /\ figs' = figs \cup {plt_subplots}
    /\ scat' = [t |-> None, pts |-> << >>]
    /\ pc' = "save_setup"
    /\ UNCHANGED <<run, error, t_preview, frames, fps, run_anim, export_gif, i, x,
                   y, nextId, X, Y, ts, idx, fig_prev, displayed, pauses,
                   encoded, buf, download, success, calls, sampled, probe>>

\* Lines 116-118, entering ani.save: the writer is set up on the buffer with
\* no frame yet.  The set-up may raise.
SaveSetup ==
    /\ pc = "save_setup"
    /\ \/ /\ pc' = OnEncoderError
          /\ error' = "EncoderError"
          /\ UNCHANGED encoded
       \/ /\ encoded' = << >>
          /\ pc' = "save_init"
          /\ UNCHANGED error
    /\ UNCHANGED <<run, t_preview, frames, fps, run_anim, export_gif, i, x, y,
                   nextId, X, Y, ts, idx, figs, fig_prev, fig, displayed,
                   pauses, scat, buf, download, success, calls, sampled, probe>>

\* Lines 93-95: init() empties the scatter; the frame counter starts at 0.
SaveInit ==
    /\ pc = "save_init"
    /\ scat' = [t |-> None, pts |-> << >>]
    /\ idx' = 0
    /\ pc' = "save_loop"
    /\ UNCHANGED <<run, error, t_preview, frames, fps, run_anim, export_gif, i, x,
                   y, nextId, X, Y, ts, figs, fig_prev, fig, displayed,
                   pauses, encoded, buf, download, success, calls, sampled, probe>>

\* Lines 96-100 under frames=len(ts) (line 101): update(idx) for the next
\* idx of range(len(ts)); X and Y are locals of update.
SaveUpdate ==
    /\ pc = "save_loop"
    /\ idx < Len(ts)
    /\ LET u == update(idx)
       IN  /\ scat' = [t |-> u.t, pts |-> column_stack(u.r.X, u.r.Y)]
           /\ x' = u.r.x /\ y' = u.r.y /\ nextId' = u.r.nextId
           /\ calls' = Append(calls, Frame(u.t, u.r))
           /\ probe' \in Capture(probe, Frame(u.t, u.r))
    /\ pc' = "save_grab"
    /\ UNCHANGED <<run, error, t_preview, frames, fps, run_anim, export_gif, i,
                   X, Y, ts, idx, figs, fig_prev, fig, displayed, pauses,
                   encoded, buf, download, success, sampled>>

\* Line 118, inside ani.save: the writer grabs the figure as drawn.  The
\* grab may raise (memory, encoder).
SaveGrab ==
    /\ pc = "save_grab"
    /\ \/ /\ pc' = OnEncoderError
          /\ error' = "EncoderError"
          /\ UNCHANGED <<encoded, idx>>
       \/ /\ encoded' = Append(encoded, [t |-> scat.t, fig |-> fig, pts |-> scat.pts])
          /\ idx' = idx + 1
          /\ pc' = "save_loop"
          /\ UNCHANGED error
    /\ UNCHANGED <<run, t_preview, frames, fps, run_anim, export_gif, i, x, y,
                   nextId, X, Y, ts, figs, fig_prev, fig, displayed, pauses,
                   scat, buf, download, success, calls, sampled, probe>>

\* Line 118, leaving ani.save: the writer writes its frames to buf with a
\* frame duration of int(1000 / fps).  It takes its first frame before it
\* divides, so no frame raises IndexError and fps = 0 ZeroDivisionError.
SaveFinish ==
    /\ pc = "save_loop"
    /\ idx = Len(ts)
    /\ \/ /\ encoded = << >>
          /\ pc' = OnEncoderError
          /\ error' = "IndexError"
          /\ UNCHANGED buf
       \/ /\ encoded # << >>
          /\ fps = 0
          /\ pc' = OnEncoderError
          /\ error' = "ZeroDivisionError"
          /\ UNCHANGED buf
       \/ /\ encoded # << >>
          /\ fps # 0
          /\ pc' = OnEncoderError
          /\ error' = "EncoderError"
          /\ UNCHANGED buf
       \/ /\ encoded # << >>
          /\ fps # 0
          /\ buf' = [frames |-> encoded, fps |-> fps]
          /\ pc' = "export_download"
          /\ UNCHANGED error
    /\ UNCHANGED <<run, t_preview, frames, fps, run_anim, export_gif, i, x, y,
                   nextId, X, Y, ts, idx, figs, fig_prev, fig, displayed,
                   pauses, scat, encoded, download, success, calls, sampled, probe>>

\* Lines 119-121: buf.seek(0); st.download_button("Download GIF", data=buf,
\* ..., mime="image/gif").
ExportDownload ==
    /\ pc = "export_download"
    /\ download' = [data |-> buf, mime |-> "image/gif"]
    /\ pc' = "export_success"
    /\ UNCHANGED <<run, error, t_preview, frames, fps, run_anim, export_gif, i, x,
                   y, nextId, X, Y, ts, idx, figs, fig_prev, fig, displayed,
                   pauses, scat, encoded, buf, success, calls, sampled, probe>>

\* Line 122: st.success(...); the script ends.
ExportSuccess ==
    /\ pc = "export_success"
    /\ success' = TRUE
    /\ pc' = "done"
    /\ UNCHANGED <<run, error, t_preview, frames, fps, run_anim, export_gif, i, x,
                   y, nextId, X, Y, ts, idx, figs, fig_prev, fig, displayed,
                   pauses, scat, encoded, buf, download, calls, sampled, probe>>

Next ==
    \/ StartRun
    \/ ModuleInit
    \/ Preview
    \/ LiveSample
    \/ LiveCompute
    \/ LiveRender
    \/ LiveDisplay
    \/ LiveSleep
    \/ LiveExit
    \/ ExportSample
    \/ ExportFigure
    \/ SaveSetup
    \/ SaveInit
    \/ SaveUpdate
    \/ SaveGrab
    \/ SaveFinish
    \/ ExportDownload
    \/ ExportSuccess

Spec == Init /\ [][Next]_vars


\* ---------------------------------------------------------------- claims
Started == pc \notin {"idle", "init"}
LivePcs == {"live_loop", "live_render", "live_display", "live_sleep"}
Zero == Time(0, <<0, 1>>)
TwoPi == Time(0, <<1, 1>>)

\* Every sample taken in this run, and the one kept from an earlier moment.
SamplesSeen ==
    {[n |-> s.n, ts |-> s.ts] : s \in sampled}
        \cup (IF probe # None /\ probe.kind = "sample"
                 THEN {[n |-> probe.n, ts |-> probe.ts]} ELSE {})

\* Every frame compute_points returned in this run, and the one kept.
FramesSeen ==
    Range(calls) \cup (IF probe # None /\ probe.kind = "frame" THEN {probe} ELSE {})

\* b - a = 1/(n-1) of a full turn, by cross-multiplication.
StepIs(a, b, n) ==
    /\ a.steps = 0 /\ b.steps = 0
    /\ (b.turn[1] * a.turn[2] - a.turn[1] * b.turn[2]) * (n - 1)
           = a.turn[2] * b.turn[2]

\* C1: for every frame count n >= 2 the sampled t-sequence of the live path
\* and of the export path has exactly n values, starts at 0, ends at 2*pi,
\* has the constant step 2*pi/(n-1), and both paths build the same sequence
\* for the same n.
C1_SamplingEvenEndpoints ==
    /\ \A s \in SamplesSeen :
          s.n >= 2 =>
             /\ Len(s.ts) = s.n
             /\ s.ts[1] = Zero
             /\ s.ts[s.n] = TwoPi
             /\ \A k \in 1..(s.n - 1) : StepIs(s.ts[k], s.ts[k + 1], s.n)
    /\ \A s1, s2 \in SamplesSeen : s1.n = s2.n => s1.ts = s2.ts

C1_Witness ==
    /\ pc = "done"
    /\ frames >= 3
    /\ \E s1, s2 \in sampled : s1.path = "live" /\ s2.path = "export"
    /\ probe # None /\ probe.kind = "sample"
    /\ probe.run < run /\ probe.n = frames

\* A consumed frame is the one computed for its t.
FrameOf(c) ==
    \A j \in 1..Len(c.pts) : c.pts[j][1][2] = c.t /\ c.pts[j][2][2] = c.t

\* C2: within a live-playback run and within an export run the k-th frame
\* consumed (displayed, or grabbed by the writer) is the frame of the k-th
\* sampled t, in strictly increasing t, none skipped, repeated or reordered.
C2_FramesInOrder ==
    /\ Len(displayed) <= Len(ts) /\ Len(encoded) <= Len(ts)
    /\ \A k \in 1..Len(displayed) :
          /\ displayed[k].t = ts[k]
          /\ FrameOf(displayed[k])
          /\ Len(displayed[k].pts) = MaxIndex + 1
    /\ \A k \in 1..Len(encoded) :
          /\ encoded[k].t = ts[k]
          /\ FrameOf(encoded[k])
          /\ Len(encoded[k].pts) = MaxIndex + 1
    /\ \A k \in 1..(Len(displayed) - 1) : TimeLess(displayed[k].t, displayed[k + 1].t)
    /\ \A k \in 1..(Len(encoded) - 1) : TimeLess(encoded[k].t, encoded[k + 1].t)
    /\ (pc = "done" /\ run_anim) => Len(displayed) = Len(ts)
    /\ (pc = "done" /\ export_gif) => Len(encoded) = Len(ts)

C2_Witness ==
    /\ pc = "done"
    /\ Len(displayed) >= 3
    /\ Len(encoded) >= 3

C4_ExportAllOrNothing ==
    /\ buf # None =>
          /\ buf.frames = encoded
          /\ Len(encoded) = frames
          /\ \A k \in 1..frames : encoded[k].t = ts[k]
    /\ download # None => buf # None /\ download.data = buf /\ error = ""
    /\ success => download # None
    /\ error # "" => buf = None /\ download = None /\ ~success

C4_Witness ==
    /\ pc = "crashed"
    /\ error = "EncoderError"
    /\ Len(encoded) >= 1
    /\ Len(encoded) < frames
    /\ download = None

\* The delay is max(1/1000, 1/f) seconds.
DelayIs(p, f) ==
    /\ ~RatLess(p, <<1, MinDelayDen>>)
    /\ (f >= 1 /\ f <= MinDelayDen) => p[1] * f = p[2]
    /\ (f < 0 \/ f > MinDelayDen) => p = <<1, MinDelayDen>>

\* C5: live playback computes, renders and displays one frame, then pauses
\* once for max(1 ms, 1/fps) s; the next frame is not computed before that
\* pause, at most one frame is computed and not yet displayed, and a loop
\* that ran to its end paused once per frame displayed.
C5_LiveSequential ==
    /\ Len(pauses) <= Len(displayed)
    /\ Len(displayed) <= Len(pauses) + 1
    /\ \A k \in 1..Len(pauses) : DelayIs(pauses[k], fps)
    /\ pc \in LivePcs =>
          /\ Len(calls) - 1 <= Len(pauses) + 1
          /\ Len(calls) - 1 - Len(displayed) \in {0, 1}
    /\ pc = "live_loop" => Len(pauses) = idx /\ Len(displayed) = idx /\ Len(calls) = idx + 1
    /\ (run_anim /\ error = "" /\ pc \notin (LivePcs \cup {"init", "preview", "live_sample"})) =>
          /\ Len(pauses) = Len(displayed)
          /\ Len(displayed) = Len(ts)

C5_Witness ==
    /\ pc = "done"
    /\ run_anim
    /\ fps >= 1
    /\ Len(pauses) = 3
    /\ Len(displayed) = 3

ReturnedIds == [k \in 1..(2 * Len(calls)) |->
                   IF k % 2 = 1 THEN calls[(k + 1) \div 2].X.id
                   ELSE calls[k \div 2].Y.id]

\* C7: once built, x and y (MaxIndex + 1 entries descending to 0, y = x/235)
\* are never modified by any preview, live-playback or export step, and every
\* compute_points call returns new X and Y arrays of that length which are
\* neither x, y or i nor an array returned before.
C7_IndexDomainReadOnly ==
    Started =>
       /\ Len(x.data) = MaxIndex + 1 /\ Len(y.data) = MaxIndex + 1
       /\ x.data[1] = MaxIndex /\ x.data[MaxIndex + 1] = 0
       /\ \A j \in 1..MaxIndex : x.data[j + 1] = x.data[j] - 1
       /\ \A j \in 1..(MaxIndex + 1) :
             /\ y.data[j][2] > 0
             /\ y.data[j][1] * YDivisor = x.data[j] * y.data[j][2]
       /\ i.data = x.data
       /\ Cardinality({i.id, x.id, y.id}) = 3
       /\ \A k \in 1..Len(calls) :
             /\ Len(calls[k].X.data) = MaxIndex + 1
             /\ Len(calls[k].Y.data) = MaxIndex + 1
       /\ \A k \in 1..Len(ReturnedIds) :
             /\ ReturnedIds[k] \notin {i.id, x.id, y.id}
             /\ \A m \in 1..(k - 1) : ReturnedIds[m] # ReturnedIds[k]

C7_Witness ==
    /\ pc = "done"
    /\ run_anim /\ export_gif
    /\ Len(calls) = 1 + 2 * frames
    /\ frames >= 2

\* C8: sampling and frame generation are repeatable: the same frame count
\* gives the same t-values, and the same t gives the same coordinate frame,
\* within a run (preview, live playback, export) and across runs; the frame
\* the live loop displays for the k-th t is the one the writer grabs for it.
C8_Deterministic ==
    /\ \A f, g \in FramesSeen :
          f.t = g.t => f.X.data = g.X.data /\ f.Y.data = g.Y.data
    /\ \A s1, s2 \in SamplesSeen : s1.n = s2.n => s1.ts = s2.ts
    /\ \A k \in 1..Len(displayed) :
          k <= Len(encoded) => displayed[k].pts = encoded[k].pts

C8_Witness ==
    /\ pc = "done"
    /\ Len(displayed) >= 2 /\ Len(encoded) >= 2
    /\ probe # None /\ probe.kind = "frame"
    /\ probe.run < run
    /\ probe.t = TwoPi

\* The figures this run created.
RunFigures == ({fig_prev, fig} \cup {displayed[k].fig : k \in 1..Len(displayed)}) \ {0}

\* C9: a request reads and writes no process-wide state but the read-only
\* index arrays, and nothing it created is still held when it has ended.
C9_NothingSharedOrHeld ==
    pc \in {"done", "crashed"} => figs \cap RunFigures = {}

====
